---------------------------- MODULE Spec2Model ----------------------------
(***************************************************************************)
(* 3cx-prompt-finder: the usage resolver gather_prompt_usages (main.py)    *)
(* and one run of the tool (main.py __main__/main/report_from_api/         *)
(* report_from_output, api.py APIClient).                                  *)
(*                                                                         *)
(* JSON values (what orjson.loads returns) are tagged records:             *)
(*   None  -> [t |-> "null"]                                              *)
(*   str   -> [t |-> "str",  s  |-> "..."]                                *)
(*   list  -> [t |-> "list", l  |-> << v1, v2, ... >>]                    *)
(*   dict  -> [t |-> "dict", kv |-> << <<k1, v1>>, <<k2, v2>>, ... >>]    *)
(* A dict keeps its keys in document order, as a Python dict does; a key   *)
(* that does not occur in kv is absent.                                    *)
(***************************************************************************)
EXTENDS Integers, Sequences, FiniteSets, TLC

VARIABLES
    rin,       \* arguments of the current/last call of gather_prompt_usages
    rout,      \* its outcome: NotCalled, Raised or Returned(usages)
    clear,     \* args.clear of this run
    output,    \* the output/ directory: NoDir, or Dir(file name -> JSON document)
    pc,        \* "idle" | "start" | "main" | "api" | "cache" | "done" | "failed"
    ip,        \* index of the next statement of report_from_api / report_from_output
    mode,      \* "none" | "cache" | "api": the branch main() took in this run
    locals,    \* local variables of report_from_api / report_from_output
    log,       \* HTTP requests this run issued, in order, each with its outcome
    cfa,       \* the running call_flow_apps() loop: NoLoop, or [todo, done]
    runs       \* number of runs started so far

vars == <<rin, rout, clear, output, pc, ip, mode, locals, log, cfa, runs>>

-----------------------------------------------------------------------------
(* Python values *)

Null == [t |-> "null"]
Str(s) == [t |-> "str", s |-> s]
List(q) == [t |-> "list", l |-> q]
Dict(kv) == [t |-> "dict", kv |-> kv]

EmptyDict == Dict(<<>>)
EmptyList == List(<<>>)

\* bool(v): None, "", [] and {} are falsy
Truthy(v) ==
    CASE v.t = "null" -> FALSE
      [] v.t = "str"  -> v.s # ""
      [] v.t = "list" -> v.l # <<>>
      [] v.t = "dict" -> v.kv # <<>>

\* `a or b`
Or(a, b) == IF Truthy(a) THEN a ELSE b

\* only a dict has .get / .items; on anything else the call raises
HasGet(v) == v.t = "dict"

HasKey(d, k) == \E i \in 1..Len(d.kv) : d.kv[i][1] = k

\* d.get(k, default)
GetOr(d, k, default) ==
    IF HasKey(d, k)
    THEN d.kv[CHOOSE i \in 1..Len(d.kv) : d.kv[i][1] = k][2]
    ELSE default

\* d.get(k)
Get(d, k) == GetOr(d, k, Null)

\* `for x in v` raises on None
Iterable(v) == v.t # "null"

\* what `for x in v` yields: a list's elements, a dict's keys, a string's
\* characters (a non-empty string yields strings; one stands for them)
Elems(v) ==
    CASE v.t = "list" -> v.l
      [] v.t = "dict" -> [i \in 1..Len(v.kv) |-> Str(v.kv[i][1])]
      [] v.t = "str"  -> IF v.s = "" THEN <<>> ELSE <<Str(v.s)>>
      [] OTHER        -> <<>>

\* `v in prompt_filenames` raises TypeError on an unhashable list or dict
Hashable(v) == v.t \in {"null", "str"}

\* str(v) inside an f-string, for the values Number and Name take here
PyStr(v) == IF v.t = "str" THEN v.s ELSE "None"

-----------------------------------------------------------------------------
(* gather_prompt_usages.  The scan threads st = [err, usages]: err is set  *)
(* when a statement raises (the exception leaves the function), usages is  *)
(* the dict `usages` being filled.                                         *)

Raise(st) == [st EXCEPT !.err = TRUE]

\* a description is the f-string's pieces in order
ItemLabel(item) == <<PyStr(Get(item, "Number")), " ", PyStr(Get(item, "Name"))>>

\* add() that skips a description the list already holds
add_Dedupe(st, fn, text) ==
    IF fn \in DOMAIN st.usages /\ \A i \in 1..Len(st.usages[fn]) : st.usages[fn][i] # text
    THEN [st EXCEPT !.usages[fn] = Append(@, text)]
    ELSE st

add(st, fn, text) ==
    IF fn \in DOMAIN st.usages
    THEN [st EXCEPT !.usages[fn] = Append(@, text)]
    ELSE st

\* the test without `value in prompt_filenames`, on a usages dict that grows
AddIfKnown_NoCheck(st, prompt_filenames, value, text) ==
    IF st.err \/ ~Truthy(value) THEN st
    ELSE IF ~Hashable(value) THEN Raise(st)
    ELSE LET old == IF value.s \in DOMAIN st.usages THEN st.usages[value.s] ELSE <<>>
         IN  [st EXCEPT !.usages = (value.s :> Append(old, text)) @@ st.usages]

\* `if value and value in prompt_filenames: add(value, text)`
AddIfKnown(st, prompt_filenames, value, text) ==
    IF st.err \/ ~Truthy(value) THEN st
    ELSE IF ~Hashable(value) THEN Raise(st)
    ELSE IF value.s \in prompt_filenames THEN add(st, value.s, text)
    ELSE st

\* what `for x in v` runs over; None is not iterable and the loop raises
Iterate(st, v) == IF st.err \/ Iterable(v) THEN st ELSE Raise(st)

\* `(collection or {}).get("value", [])`; a truthy non-dict has no .get
ValueOf(collection) == GetOr(Or(collection, EmptyDict), "value", EmptyList)
\* `collection.get("value", [])`, without `or {}`
ValueRaises_NoDefault(collection) == ~HasGet(collection)
ValueRaises(collection) == ~HasGet(Or(collection, EmptyDict))

\* `for forward in item.get("Forwards", [])`, body of lines 43-45
RECURSIVE ScanForwards(_, _, _, _)
ScanForwards(st, prompt_filenames, item, forwards) ==
    IF st.err \/ forwards = <<>> THEN st
    ELSE LET forward == Head(forwards)
             s1 == IF ~HasGet(forward) THEN Raise(st)
                   ELSE AddIfKnown(st, prompt_filenames, Get(forward, "CustomData"),
                            <<"Receptionist (forward key): ">> \o ItemLabel(item))
         IN  ScanForwards(s1, prompt_filenames, item, Tail(forwards))

ScanReceptionist(st, prompt_filenames, item) ==
    IF ~HasGet(item) THEN Raise(st)
    ELSE LET s1 == AddIfKnown(st, prompt_filenames, Get(item, "PromptFilename"),
                              <<"Receptionist: ">> \o ItemLabel(item))
             forwards == GetOr(item, "Forwards", EmptyList)
         IN  ScanForwards(Iterate(s1, forwards), prompt_filenames, item, Elems(forwards))

RECURSIVE ScanReceptionists(_, _, _)
ScanReceptionists(st, prompt_filenames, items) ==
    IF st.err \/ items = <<>> THEN st
    ELSE ScanReceptionists(ScanReceptionist(st, prompt_filenames, Head(items)),
                           prompt_filenames, Tail(items))

queue_file_keys == <<"IntroFile", "OnHoldFile", "GreetingFile">>
route_keys == <<"OutOfOfficeRoute", "BreakRoute", "HolidaysRoute">>
group_route_keys == <<"OfficeRoute", "OutOfOfficeRoute", "BreakRoute", "HolidaysRoute">>

\* `for key in queue_file_keys`, body of lines 53-55
RECURSIVE ScanFiles(_, _, _, _)
ScanFiles(st, prompt_filenames, item, keys) ==
    IF st.err \/ keys = <<>> THEN st
    ELSE LET key == Head(keys)
             s1 == AddIfKnown(st, prompt_filenames, Get(item, key),
                              <<"Queue ", key, ": ">> \o ItemLabel(item))
         IN  ScanFiles(s1, prompt_filenames, item, Tail(keys))

\* `route = item.get(rkey, {}) or {}; prompt = route.get("Prompt"); if ...`
ScanRoute(st, prompt_filenames, item, rkey, prefix) ==
    LET route == Or(GetOr(item, rkey, EmptyDict), EmptyDict)
    IN  IF ~HasGet(route) THEN Raise(st)
        ELSE AddIfKnown(st, prompt_filenames, Get(route, "Prompt"),
                        <<prefix, rkey, ": ">> \o ItemLabel(item))

\* `for rkey in route_keys` / `for rkey in group_route_keys`
RECURSIVE ScanRoutes(_, _, _, _, _)
ScanRoutes(st, prompt_filenames, item, rkeys, prefix) ==
    IF st.err \/ rkeys = <<>> THEN st
    ELSE ScanRoutes(ScanRoute(st, prompt_filenames, item, Head(rkeys), prefix),
                    prompt_filenames, item, Tail(rkeys), prefix)

ScanQueue(st, prompt_filenames, item) ==
    IF ~HasGet(item) THEN Raise(st)
    ELSE ScanRoutes(ScanFiles(st, prompt_filenames, item, queue_file_keys),
                    prompt_filenames, item, route_keys, "Queue route ")

RECURSIVE ScanQueues(_, _, _)
ScanQueues(st, prompt_filenames, items) ==
    IF st.err \/ items = <<>> THEN st
    ELSE ScanQueues(ScanQueue(st, prompt_filenames, Head(items)),
                    prompt_filenames, Tail(items))

ScanGroup(st, prompt_filenames, item) ==
    IF ~HasGet(item) THEN Raise(st)
    ELSE ScanRoutes(st, prompt_filenames, item, group_route_keys, "Group route ")

RECURSIVE ScanGroups(_, _, _)
ScanGroups(st, prompt_filenames, items) ==
    IF st.err \/ items = <<>> THEN st
    ELSE ScanGroups(ScanGroup(st, prompt_filenames, Head(items)),
                    prompt_filenames, Tail(items))

\* `for key, value in d.items()`, body of lines 74-75
RECURSIVE ScanItems(_, _, _)
ScanItems(st, prompt_filenames, kv) ==
    IF st.err \/ kv = <<>> THEN st
    ELSE LET key == Head(kv)[1]
             value == Head(kv)[2]
             s1 == AddIfKnown(st, prompt_filenames, value,
                              <<"MusicOnHold setting (", key, ")">>)
         IN  ScanItems(s1, prompt_filenames, Tail(kv))

\* `for key, value in (music_on_hold_settings or {}).items()`
ScanMusicOnHold(st, prompt_filenames, music_on_hold_settings) ==
    LET d == Or(music_on_hold_settings, EmptyDict)
    IN  IF st.err THEN st
        ELSE IF ~HasGet(d) THEN Raise(st)
        ELSE ScanItems(st, prompt_filenames, d.kv)

\* `moh = (settings or {}).get("MusicOnHold"); if moh and moh in ...: add(moh, text)`
ScanSetting(st, prompt_filenames, settings, text) ==
    LET d == Or(settings, EmptyDict)
    IN  IF st.err THEN st
        ELSE IF ~HasGet(d) THEN Raise(st)
        ELSE AddIfKnown(st, prompt_filenames, Get(d, "MusicOnHold"), text)

\* `for item in (collection or {}).get("value", [])`: the iterable, or a raise
Enter(st, collection) ==
    IF st.err THEN st
    ELSE IF ValueRaises(collection) THEN Raise(st)
    ELSE Iterate(st, ValueOf(collection))

ItemsOf(st, collection) == IF st.err THEN <<>> ELSE Elems(ValueOf(collection))

NotCalled == [st |-> "notcalled"]
Raised == [st |-> "raised"]
Returned(usages) == [st |-> "returned", usages |-> usages]

\* the mapping returned as filled, empty lists included
DropEmpty_KeepAll(usages) == usages

\* `usages = {k: v for k, v in usages.items() if v}`
DropEmpty(usages) == [k \in {fn \in DOMAIN usages : usages[fn] # <<>>} |-> usages[k]]

gather_prompt_usages(prompt_filenames, receptionists, queues, groups, music_on_hold_settings, conference_settings, call_parking_settings) ==
    LET s0 == [err |-> FALSE, usages |-> [fn \in prompt_filenames |-> <<>>]]
        r0 == Enter(s0, receptionists)
        s1 == ScanReceptionists(r0, prompt_filenames, ItemsOf(r0, receptionists))
        q0 == Enter(s1, queues)
        s2 == ScanQueues(q0, prompt_filenames, ItemsOf(q0, queues))
        g0 == Enter(s2, groups)
        s3 == ScanGroups(g0, prompt_filenames, ItemsOf(g0, groups))
        s4 == ScanMusicOnHold(s3, prompt_filenames, music_on_hold_settings)
        s5 == ScanSetting(s4, prompt_filenames, conference_settings,
                          <<"Conference: MusicOnHold">>)
        s6 == ScanSetting(s5, prompt_filenames, call_parking_settings,
                          <<"CallParking: MusicOnHold">>)
    IN  IF s6.err THEN Raised ELSE Returned(DropEmpty(s6.usages))

\* the call, on an argument record
Gather(a) ==
    gather_prompt_usages(a.prompt_filenames, a.receptionists, a.queues, a.groups,
                         a.music_on_hold_settings, a.conference_settings,
                         a.call_parking_settings)

-----------------------------------------------------------------------------
(* The documents the resolver is called on.  Their shapes are the ones the *)
(* API's $select lists ask for (api.py); a key may be absent, null or "".  *)

MaxFields == 1      \* optional fields set on the entity that is varied freely
MaxItems == 2       \* entities in a collection's "value" list
MaxForwards == 1    \* Forwards of a receptionist
MaxKeys == 2        \* MusicOnHold<i> keys of the music-on-hold settings

Names == {"a.wav", "b.wav"}
KnownSets == {{"a.wav"}, {"a.wav", "b.wav"}}
FieldValues == {Null, Str("")} \cup {Str(n) : n \in Names}

Range(seq) == {seq[i] : i \in 1..Len(seq)}

\* the (key, value) pairs of f, in the order of keys
RECURSIVE Pairs(_, _)
Pairs(keys, f) ==
    IF keys = <<>> THEN <<>>
    ELSE (IF Head(keys) \in DOMAIN f THEN <<<<Head(keys), f[Head(keys)]>>>> ELSE <<>>)
         \o Pairs(Tail(keys), f)

\* every way to set at most n of the keys, key k to a value of dom[k]
Assignments(keys, dom, n) ==
    UNION {{f \in [K -> UNION {dom[k] : k \in K}] : \A k \in K : f[k] \in dom[k]} :
           K \in {S \in SUBSET Range(keys) : Cardinality(S) <= n}}

Identity(j) == <<<<"Number", Str(ToString(99 + j))>>, <<"Name", Str("N")>>>>

Prompt(v) == Dict(<<<<"Prompt", v>>>>)
RouteValues == {Null, EmptyDict} \cup {Prompt(v) : v \in FieldValues}
ForwardValues == {EmptyDict} \cup {Dict(<<<<"CustomData", v>>>>) : v \in FieldValues}
ForwardsValues ==
    {Null, Str("")} \cup {List(l) : l \in UNION {[1..n -> ForwardValues] : n \in 0..MaxForwards}}

receptionist_keys == <<"PromptFilename", "Forwards">>
ReceptionistDom == [k \in Range(receptionist_keys) |-> IF k = "Forwards" THEN ForwardsValues ELSE FieldValues]
QueueDom == [k \in Range(queue_file_keys) \cup Range(route_keys) |-> IF k \in Range(route_keys) THEN RouteValues ELSE FieldValues]
GroupDom == [k \in Range(group_route_keys) |-> RouteValues]

\* well-formed entities, each referencing a.wav directly and through a sub-record
PlainForward == Dict(<<<<"CustomData", Str("a.wav")>>>>)
PlainReceptionist == <<<<"PromptFilename", Str("a.wav")>>, <<"Forwards", List(<<PlainForward, PlainForward>>)>>>>
PlainQueue == <<<<"IntroFile", Str("a.wav")>>, <<"BreakRoute", Prompt(Str("a.wav"))>>>>
PlainGroup == <<<<"OfficeRoute", Prompt(Str("a.wav"))>>, <<"HolidaysRoute", Prompt(Str("b.wav"))>>>>

\* "value" lists of at most MaxItems entities: one varied freely, the others plain
Places == {np \in (1..MaxItems) \X (1..MaxItems) : np[2] <= np[1]}
ListAt(np, keys, f, plain) ==
    [j \in 1..np[1] |-> IF j = np[2] THEN Dict(Identity(j) \o Pairs(keys, f))
                        ELSE Dict(Identity(j) \o plain)]
Lists(keys, dom, plain) ==
    {<<>>} \cup {ListAt(np, keys, f, plain) : np \in Places, f \in Assignments(keys, dom, MaxFields)}

Value(v) == Dict(<<<<"value", v>>>>)
Collections(lists) == {Null, EmptyDict, Value(Null), Value(Str(""))} \cup {Value(List(l)) : l \in lists}

moh_keys == [i \in 1..MaxKeys |-> "MusicOnHold" \o ToString(i - 1)]

RichDocs ==
    [receptionists |-> Collections(Lists(receptionist_keys, ReceptionistDom, PlainReceptionist)),
     queues |-> Collections(Lists(queue_file_keys \o route_keys, QueueDom, PlainQueue)),
     groups |-> Collections(Lists(group_route_keys, GroupDom, PlainGroup)),
     music_on_hold_settings |->
         {Null} \cup {Dict(Pairs(moh_keys, f)) :
                      f \in Assignments(moh_keys, [k \in Range(moh_keys) |-> FieldValues], MaxKeys)},
     conference_settings |-> {Null, EmptyDict} \cup {Dict(<<<<"MusicOnHold", v>>>>) : v \in FieldValues},
     call_parking_settings |-> {Null, EmptyDict} \cup {Dict(<<<<"MusicOnHold", v>>>>) : v \in FieldValues}]

CollectionNames == {"receptionists", "queues", "groups", "music_on_hold_settings", "conference_settings", "call_parking_settings"}

PlainDocs ==
    [receptionists |-> Value(List(<<Dict(Identity(1) \o PlainReceptionist)>>)),
     queues |-> Value(List(<<Dict(Identity(1) \o PlainQueue)>>)),
     groups |-> Value(List(<<Dict(Identity(1) \o PlainGroup)>>)),
     music_on_hold_settings |-> Dict(<<<<"MusicOnHold0", Str("a.wav")>>, <<"MusicOnHold1", Null>>>>),
     conference_settings |-> Dict(<<<<"MusicOnHold", Str("a.wav")>>>>),
     call_parking_settings |-> Dict(<<<<"MusicOnHold", Str("a.wav")>>>>)]

\* every collection absent (None), empty ({}) or plain
CoarseInputs == [CollectionNames -> {"null", "empty", "plain"}]
CoarseDoc(c, kind) == CASE kind = "null" -> Null [] kind = "empty" -> EmptyDict [] OTHER -> PlainDocs[c]

Call(prompt_filenames, docs) ==
    [prompt_filenames |-> prompt_filenames,
     receptionists |-> docs.receptionists, queues |-> docs.queues, groups |-> docs.groups,
     music_on_hold_settings |-> docs.music_on_hold_settings,
     conference_settings |-> docs.conference_settings,
     call_parking_settings |-> docs.call_parking_settings]

-----------------------------------------------------------------------------
(* The resolver alone: one call, on any of Inputs. *)

NoDir == [t |-> "nodir"]
Dir(files) == [t |-> "dir", files |-> files]
NoCall == [t |-> "nocall"]
NoLoop == [t |-> "noloop"]

InitResolver ==
    /\ rin = NoCall
    /\ rout = NotCalled
    /\ clear = FALSE /\ output = NoDir /\ pc = "idle" /\ ip = 0 /\ mode = "none"
    /\ locals = <<>> /\ log = <<>> /\ cfa = NoLoop /\ runs = 0

\* rout = gather_prompt_usages(*rin)
Invoke(a) ==
    /\ rin' = a
    /\ rout' = Gather(a)
    /\ UNCHANGED <<clear, output, pc, ip, mode, locals, log, cfa, runs>>

\* a call with every collection absent, empty or plain
CallCoarse ==
    /\ rout = NotCalled
    /\ \E k \in KnownSets, g \in CoarseInputs :
           Invoke(Call(k, [c \in CollectionNames |-> CoarseDoc(c, g[c])]))

\* a call with one collection varied freely, the others all absent or all plain
CallFocus ==
    /\ rout = NotCalled
    /\ \E k \in KnownSets, bg \in {"null", "plain"}, focus \in CollectionNames :
           \E d \in RichDocs[focus] :
               Invoke(Call(k, [c \in CollectionNames |-> IF c = focus THEN d ELSE CoarseDoc(c, bg)]))

NextResolver == CallCoarse \/ CallFocus

SpecResolver == InitResolver /\ [][NextResolver]_vars

-----------------------------------------------------------------------------
(* One run of the tool: __main__, main(), report_from_api or               *)
(* report_from_output.  The two report functions are straight-line         *)
(* programs; ip walks them one statement at a time.                        *)

MaxRuns == 2    \* runs of the tool in a row, over the same output/ directory
MaxApps == 2    \* call flow apps the PBX reports

ValueEmpty == Value(EmptyList)

Fetch(name, var, default) == [op |-> "fetch", name |-> name, var |-> var, default |-> default]
Write(var, file) == [op |-> "write", var |-> var, file |-> file]
Load(file, var, default) == [op |-> "load", file |-> file, var |-> var, default |-> default]
Do(op) == [op |-> op]

\* report_from_api writing each document as soon as it is fetched
report_from_api_WriteAsFetched ==
    << Do("makedirs"),
       Fetch("custom_prompts", "prompts", ValueEmpty),
       Write("prompts", "custom_prompts.json"),
       Fetch("receptionists", "receptionists", ValueEmpty),
       Write("receptionists", "receptionists.json"),
       Fetch("queues", "queues", ValueEmpty),
       Write("queues", "queues.json"),
       Fetch("groups", "groups", ValueEmpty),
       Write("groups", "groups.json"),
       Fetch("playlists", "playlists", ValueEmpty),
       Write("playlists", "playlists.json"),
       Fetch("conference_settings", "conference_settings", EmptyDict),
       Write("conference_settings", "conference_settings.json"),
       Fetch("music_on_hold_settings", "music_on_hold_settings", EmptyDict),
       Write("music_on_hold_settings", "music_on_hold_settings.json"),
       Fetch("call_parking_settings", "call_parking_settings", EmptyDict),
       Write("call_parking_settings", "call_parking_settings.json"),
       Fetch("call_flow_apps", "call_flow_apps", ValueEmpty),
       Write("call_flow_apps", "call_flow_apps.json"),
       Do("gather"),
       Do("print_report"),
       Fetch("call_flow_apps", "print_call_flow_apps", ValueEmpty),
       Do("print_apps"),
       Fetch("call_flow_apps", "print_call_flow_apps", ValueEmpty) >>

report_from_api ==
    << Fetch("custom_prompts", "prompts", ValueEmpty),
       Fetch("receptionists", "receptionists", ValueEmpty),
       Fetch("queues", "queues", ValueEmpty),
       Fetch("groups", "groups", ValueEmpty),
       Fetch("playlists", "playlists", ValueEmpty),
       Fetch("conference_settings", "conference_settings", EmptyDict),
       Fetch("music_on_hold_settings", "music_on_hold_settings", EmptyDict),
       Fetch("call_parking_settings", "call_parking_settings", EmptyDict),
       Fetch("call_flow_apps", "call_flow_apps", ValueEmpty),
       Do("makedirs"),
       Write("prompts", "custom_prompts.json"),
       Write("playlists", "playlists.json"),
       Write("receptionists", "receptionists.json"),
       Write("queues", "queues.json"),
       Write("groups", "groups.json"),
       Write("conference_settings", "conference_settings.json"),
       Write("music_on_hold_settings", "music_on_hold_settings.json"),
       Write("call_parking_settings", "call_parking_settings.json"),
       Write("call_flow_apps", "call_flow_apps.json"),
       Do("gather"),
       Do("print_report"),
       Fetch("call_flow_apps", "print_call_flow_apps", ValueEmpty),
       Do("print_apps"),
       Fetch("call_flow_apps", "print_call_flow_apps", ValueEmpty) >>

report_from_output ==
    << Load("custom_prompts.json", "prompts", ValueEmpty),
       Load("receptionists.json", "receptionists", ValueEmpty),
       Load("queues.json", "queues", ValueEmpty),
       Load("groups.json", "groups", ValueEmpty),
       Load("playlists.json", "playlists", ValueEmpty),
       Load("music_on_hold_settings.json", "music_on_hold_settings", EmptyDict),
       Load("conference_settings.json", "conference_settings", EmptyDict),
       Load("call_parking_settings.json", "call_parking_settings", EmptyDict),
       Do("gather"),
       Do("print_report") >>

Program == IF pc = "api" THEN report_from_api ELSE report_from_output
Running == pc \in {"api", "cache"} /\ ip \in 1..Len(Program)
Stmt == Program[ip]
At(op) == Running /\ Stmt.op = op

IsDir(o) == o.t = "dir"
Exists(o, file) == IsDir(o) /\ file \in DOMAIN o.files

\* load_json_file without the os.path.exists test: open() raises
load_json_file_NoExistsCheck(o, file) == IF ~Exists(o, file) THEN [t |-> "raise"] ELSE o.files[file]

\* load_json_file: None for a missing file; Failure stands for an exception
Failure == [t |-> "raise"]
load_json_file(o, file) == IF ~Exists(o, file) THEN Null ELSE o.files[file]

\* ld(fname) of report_from_output
ld(o, file) ==
    LET doc == load_json_file(o, file)
    IN  IF doc = Failure THEN Failure ELSE Or(doc, EmptyDict)

\* request() without raise_for_status()
request_NoRaise(lg, url, ok) == [log |-> Append(lg, [url |-> url, ok |-> ok]), raised |-> FALSE]

\* APIClient.request: the request is sent, raise_for_status() raises on an error status
request(lg, url, ok) == [log |-> Append(lg, [url |-> url, ok |-> ok]), raised |-> ~ok]

\* the cache branch taken whenever output/ exists
UseCache_DirOnly(o) == IsDir(o)

\* main(): the cache branch is taken iff output/ and output/custom_prompts.json exist
UseCache(o) == IsDir(o) /\ Exists(o, "custom_prompts.json")

\* {p.get("DisplayName") for p in prompts.get("value", []) if p.get("DisplayName")}
PromptFilenames(prompts) ==
    LET items == Elems(GetOr(prompts, "value", EmptyList))
    IN  {Get(items[i], "DisplayName").s :
         i \in {j \in 1..Len(items) : Truthy(Get(items[j], "DisplayName"))}}

DisplayNames(names) == Value(List([i \in 1..Len(names) |-> Dict(<<<<"DisplayName", Str(names[i])>>>>)]))

\* what the PBX may answer to each collection request
Responses ==
    [custom_prompts |-> {DisplayNames(<<"a.wav">>), DisplayNames(<<"a.wav", "b.wav">>)},
     receptionists |-> {Null, PlainDocs.receptionists},
     queues |-> {PlainDocs.queues},
     groups |-> {PlainDocs.groups},
     playlists |-> {ValueEmpty},
     conference_settings |-> {PlainDocs.conference_settings},
     music_on_hold_settings |-> {PlainDocs.music_on_hold_settings},
     call_parking_settings |-> {EmptyDict}]

AppValues == {Dict(<<<<"Id", Str("1")>>, <<"Name", Str("App")>>>>), Dict(<<<<"Name", Str("App")>>>>)}
AppLists == UNION {[1..n -> AppValues] : n \in 0..MaxApps}

\* item["Files"] = files
SetFiles(item, files) == Dict(item.kv \o <<<<"Files", files>>>>)

\* a cache left by an earlier complete snapshot; any of its documents may be missing
CachedDocs ==
    [f \in {"custom_prompts.json", "receptionists.json", "queues.json", "groups.json",
            "playlists.json", "music_on_hold_settings.json", "conference_settings.json",
            "call_parking_settings.json"} |->
        CASE f = "custom_prompts.json" -> DisplayNames(<<"a.wav", "b.wav">>)
          [] f = "receptionists.json" -> PlainDocs.receptionists
          [] f = "queues.json" -> PlainDocs.queues
          [] f = "groups.json" -> PlainDocs.groups
          [] f = "playlists.json" -> ValueEmpty
          [] f = "music_on_hold_settings.json" -> PlainDocs.music_on_hold_settings
          [] f = "conference_settings.json" -> PlainDocs.conference_settings
          [] OTHER -> PlainDocs.call_parking_settings]

Init ==
    /\ rin = NoCall /\ rout = NotCalled
    /\ clear = FALSE
    /\ \/ output = NoDir
       \/ \E S \in SUBSET DOMAIN CachedDocs : output = Dir([f \in S |-> CachedDocs[f]])
    /\ pc = "idle" /\ ip = 0 /\ mode = "none"
    /\ locals = <<>> /\ log = <<>> /\ cfa = NoLoop /\ runs = 0

\* the tool is started, with or without --clear
StartRun ==
    /\ pc \in {"idle", "done", "failed"}
    /\ runs < MaxRuns
    /\ clear' \in BOOLEAN
    /\ runs' = runs + 1
    /\ pc' = "start" /\ ip' = 0 /\ mode' = "none"
    /\ rin' = NoCall /\ rout' = NotCalled
    /\ locals' = <<>> /\ log' = <<>> /\ cfa' = NoLoop
    /\ UNCHANGED output

\* __main__: `if args.clear: if os.path.isdir("output"): shutil.rmtree("output")`
Clear ==
    /\ pc = "start"
    /\ output' = IF clear /\ IsDir(output) THEN NoDir ELSE output
    /\ pc' = "main"
    /\ UNCHANGED <<rin, rout, clear, ip, mode, locals, log, cfa, runs>>

\* main(): choose report_from_output or report_from_api
Main ==
    /\ pc = "main"
    /\ IF UseCache(output)
       THEN mode' = "cache" /\ pc' = "cache"
       ELSE mode' = "api" /\ pc' = "api"
    /\ ip' = 1
    /\ UNCHANGED <<rin, rout, clear, output, locals, log, cfa, runs>>

\* the statement `var = client.<name>() or default` after a request with outcome ok
Respond(url, ok, doc) ==
    LET r == request(log, url, ok)
    IN  /\ log' = r.log
        /\ IF r.raised
           THEN pc' = "failed" /\ UNCHANGED <<ip, locals>>
           ELSE /\ locals' = (Stmt.var :> Or(doc, Stmt.default)) @@ locals
                /\ ip' = ip + 1
                /\ UNCHANGED pc
        /\ UNCHANGED <<rin, rout, clear, output, mode, cfa, runs>>

FetchOk ==
    /\ At("fetch") /\ Stmt.name # "call_flow_apps"
    /\ \E doc \in Responses[Stmt.name] : Respond(Stmt.name, TRUE, doc)

FetchError ==
    /\ At("fetch") /\ Stmt.name # "call_flow_apps"
    /\ Respond(Stmt.name, FALSE, Null)

\* call_flow_apps(): the list request, then the loop over content["value"]
ListApps(ok, apps) ==
    LET r == request(log, "call_flow_apps", ok)
    IN  /\ log' = r.log
        /\ IF r.raised
           THEN pc' = "failed" /\ UNCHANGED cfa
           ELSE cfa' = [todo |-> apps, done |-> <<>>] /\ UNCHANGED pc
        /\ UNCHANGED <<rin, rout, clear, output, ip, mode, locals, runs>>

CfaListOk ==
    /\ At("fetch") /\ Stmt.name = "call_flow_apps" /\ cfa = NoLoop
    /\ \E apps \in AppLists : ListApps(TRUE, apps)

CfaListError ==
    /\ At("fetch") /\ Stmt.name = "call_flow_apps" /\ cfa = NoLoop
    /\ ListApps(FALSE, <<>>)

InLoop == At("fetch") /\ Stmt.name = "call_flow_apps" /\ cfa # NoLoop

\* `if item_id is None: item["Files"] = []; continue`
CfaSkip ==
    /\ InLoop /\ cfa.todo # <<>>
    /\ Get(Head(cfa.todo), "Id") = Null
    /\ cfa' = [todo |-> Tail(cfa.todo), done |-> Append(cfa.done, SetFiles(Head(cfa.todo), EmptyList))]
    /\ UNCHANGED <<rin, rout, clear, output, pc, ip, mode, locals, log, runs>>

\* the GetFiles request of one item, and item["Files"] = files_content.get("value", [])
GetFiles(ok, files_content) ==
    LET r == request(log, "GetFiles", ok)
    IN  /\ log' = r.log
        /\ IF r.raised
           THEN pc' = "failed" /\ UNCHANGED cfa
           ELSE /\ cfa' = [todo |-> Tail(cfa.todo),
                           done |-> Append(cfa.done, SetFiles(Head(cfa.todo), GetOr(files_content, "value", EmptyList)))]
                /\ UNCHANGED pc
        /\ UNCHANGED <<rin, rout, clear, output, ip, mode, locals, runs>>

CfaFilesOk ==
    /\ InLoop /\ cfa.todo # <<>>
    /\ Get(Head(cfa.todo), "Id") # Null
    /\ GetFiles(TRUE, Value(List(<<Str("app.wav")>>)))

CfaFilesError ==
    /\ InLoop /\ cfa.todo # <<>>
    /\ Get(Head(cfa.todo), "Id") # Null
    /\ GetFiles(FALSE, Null)

\* `return content`, and the caller's `or {"value": []}`
CfaReturn ==
    /\ InLoop /\ cfa.todo = <<>>
    /\ locals' = (Stmt.var :> Or(Value(List(cfa.done)), Stmt.default)) @@ locals
    /\ cfa' = NoLoop
    /\ ip' = ip + 1
    /\ UNCHANGED <<rin, rout, clear, output, pc, mode, log, runs>>

\* os.makedirs("output", exist_ok=True)
Makedirs ==
    /\ At("makedirs")
    /\ output' = IF IsDir(output) THEN output ELSE Dir(<<>>)
    /\ ip' = ip + 1
    /\ UNCHANGED <<rin, rout, clear, pc, mode, locals, log, cfa, runs>>

\* `with open("output/<file>", "wb") as f: f.write(orjson.dumps(var, ...))`
WriteFile ==
    /\ At("write")
    /\ IsDir(output)
    /\ output' = Dir((Stmt.file :> locals[Stmt.var]) @@ output.files)
    /\ ip' = ip + 1
    /\ UNCHANGED <<rin, rout, clear, pc, mode, locals, log, cfa, runs>>

\* `var = ld("<file>") or default`
LoadFile ==
    /\ At("load")
    /\ LET doc == ld(output, Stmt.file)
       IN  IF doc = Failure
           THEN pc' = "failed" /\ UNCHANGED <<ip, locals>>
           ELSE /\ locals' = (Stmt.var :> Or(doc, Stmt.default)) @@ locals
                /\ ip' = ip + 1
                /\ UNCHANGED pc
    /\ UNCHANGED <<rin, rout, clear, output, mode, log, cfa, runs>>

\* prompt_filenames = {...}; usages = gather_prompt_usages(...)
Resolve ==
    /\ At("gather")
    /\ rin' = Call(PromptFilenames(locals.prompts), locals)
    /\ rout' = Gather(rin')
    /\ IF rout' = Raised
       THEN pc' = "failed" /\ UNCHANGED ip
       ELSE ip' = ip + 1 /\ UNCHANGED pc
    /\ UNCHANGED <<clear, output, mode, locals, log, cfa, runs>>

\* print_report(usages), and the printing loop of print_call_flow_apps
Report ==
    /\ At("print_report") \/ At("print_apps")
    /\ ip' = ip + 1
    /\ UNCHANGED <<rin, rout, clear, output, pc, mode, locals, log, cfa, runs>>

\* the report function returns, and main() with it
Finish ==
    /\ pc \in {"api", "cache"} /\ ip = Len(Program) + 1
    /\ pc' = "done"
    /\ UNCHANGED <<rin, rout, clear, output, ip, mode, locals, log, cfa, runs>>

Next ==
    \/ StartRun \/ Clear \/ Main
    \/ FetchOk \/ FetchError
    \/ CfaListOk \/ CfaListError \/ CfaSkip \/ CfaFilesOk \/ CfaFilesError \/ CfaReturn
    \/ Makedirs \/ WriteFile \/ LoadFile \/ Resolve \/ Report \/ Finish

Spec == Init /\ [][Next]_vars

-----------------------------------------------------------------------------
(* What the properties of the resolver are stated against: the places of   *)
(* the arguments that hold a given filename, read off the documents        *)
(* without running the scan.  A place is <<collection, entity, field, n>>. *)

Index(seq, x) == CHOOSE i \in 1..Len(seq) : seq[i] = x

\* the entities of a collection; an absent, empty or null collection has none
EntitiesOf(collection) ==
    IF collection.t = "dict" /\ HasKey(collection, "value") /\ Get(collection, "value").t = "list"
    THEN Get(collection, "value").l
    ELSE <<>>

Holds(d, key, fn) == d.t = "dict" /\ HasKey(d, key) /\ Get(d, key) = Str(fn)
RouteHolds(item, rkey, fn) == HasKey(item, rkey) /\ Holds(Get(item, rkey), "Prompt", fn)
ForwardsOf(item) ==
    IF HasKey(item, "Forwards") /\ Get(item, "Forwards").t = "list" THEN Get(item, "Forwards").l ELSE <<>>

ReceptionistRefs(a, fn) ==
    LET items == EntitiesOf(a.receptionists)
    IN  {<<1, i, 1, 0>> : i \in {i \in 1..Len(items) : Holds(items[i], "PromptFilename", fn)}}
        \cup UNION {{<<1, i, 2, j>> : j \in {j \in 1..Len(ForwardsOf(items[i])) :
                                             Holds(ForwardsOf(items[i])[j], "CustomData", fn)}} :
                    i \in 1..Len(items)}

QueueRefs(a, fn) ==
    LET items == EntitiesOf(a.queues)
    IN  {<<2, ik[1], Index(queue_file_keys, ik[2]), 0>> :
            ik \in {ik \in (1..Len(items)) \X Range(queue_file_keys) : Holds(items[ik[1]], ik[2], fn)}}
        \cup {<<2, ik[1], 3 + Index(route_keys, ik[2]), 0>> :
            ik \in {ik \in (1..Len(items)) \X Range(route_keys) : RouteHolds(items[ik[1]], ik[2], fn)}}

GroupRefs(a, fn) ==
    LET items == EntitiesOf(a.groups)
    IN  {<<3, ik[1], Index(group_route_keys, ik[2]), 0>> :
            ik \in {ik \in (1..Len(items)) \X Range(group_route_keys) : RouteHolds(items[ik[1]], ik[2], fn)}}

SettingsRefs(a, fn) ==
    LET m == a.music_on_hold_settings
    IN  (IF m.t = "dict" THEN {<<4, 0, i, 0>> : i \in {i \in 1..Len(m.kv) : m.kv[i][2] = Str(fn)}} ELSE {})
        \cup (IF Holds(a.conference_settings, "MusicOnHold", fn) THEN {<<5, 0, 0, 0>>} ELSE {})
        \cup (IF Holds(a.call_parking_settings, "MusicOnHold", fn) THEN {<<6, 0, 0, 0>>} ELSE {})

Refs(a, fn) == ReceptionistRefs(a, fn) \cup QueueRefs(a, fn) \cup GroupRefs(a, fn) \cup SettingsRefs(a, fn)

\* the place a description names: <<collection, entity, field>>
EntityOf(number) == CHOOSE j \in 1..MaxItems : ToString(99 + j) = number
PlaceOf(a, text) ==
    CASE text[1] = "Receptionist: " -> <<1, EntityOf(text[2]), 1>>
      [] text[1] = "Receptionist (forward key): " -> <<1, EntityOf(text[2]), 2>>
      [] text[1] = "Queue " -> <<2, EntityOf(text[4]), Index(queue_file_keys, text[2])>>
      [] text[1] = "Queue route " -> <<2, EntityOf(text[4]), 3 + Index(route_keys, text[2])>>
      [] text[1] = "Group route " -> <<3, EntityOf(text[4]), Index(group_route_keys, text[2])>>
      [] text[1] = "MusicOnHold setting (" ->
            <<4, 0, CHOOSE i \in 1..Len(a.music_on_hold_settings.kv) : a.music_on_hold_settings.kv[i][1] = text[2]>>
      [] text[1] = "Conference: MusicOnHold" -> <<5, 0, 0>>
      [] text[1] = "CallParking: MusicOnHold" -> <<6, 0, 0>>

\* scan order of places
Before(p, q) ==
    \/ p[1] < q[1]
    \/ p[1] = q[1] /\ p[2] < q[2]
    \/ p[1] = q[1] /\ p[2] = q[2] /\ p[3] <= q[3]

Done == rout.st = "returned"

\* C1: the returned mapping's keys are exactly the known filenames that some
\* field holds, and no key maps to an empty list.
C1_KeysAreTheUsedKnownFilenames ==
    Done =>
        /\ DOMAIN rout.usages = {fn \in rin.prompt_filenames : Refs(rin, fn) # {}}
        /\ \A fn \in DOMAIN rout.usages : rout.usages[fn] # <<>>

C1_Witness ==
    /\ Done
    /\ rin.prompt_filenames = {"a.wav", "b.wav"}
    /\ DOMAIN rout.usages = {"a.wav"}
    /\ Refs(rin, "b.wav") = {}

C3_UnknownFilenamesLeaveNoTrace ==
    Done =>
        LET all == Gather([rin EXCEPT !.prompt_filenames = Names])
        IN  /\ all.st = "returned"
            /\ \A fn \in Names \ rin.prompt_filenames : fn \notin DOMAIN rout.usages
            /\ \A fn \in rin.prompt_filenames :
                   /\ fn \in DOMAIN rout.usages <=> fn \in DOMAIN all.usages
                   /\ fn \in DOMAIN rout.usages => rout.usages[fn] = all.usages[fn]

C3_Witness ==
    /\ Done
    /\ rin.prompt_filenames = {"a.wav"}
    /\ Refs(rin, "b.wav") # {}
    /\ "a.wav" \in DOMAIN rout.usages

\* a collection given as None or {} is absent
Absent(doc) == doc \in {Null, EmptyDict}
WithoutAbsent(a) ==
    [a EXCEPT !.receptionists = IF Absent(@) THEN ValueEmpty ELSE @,
              !.queues = IF Absent(@) THEN ValueEmpty ELSE @,
              !.groups = IF Absent(@) THEN ValueEmpty ELSE @]

\* C4: a collection that is None or {} counts as holding no entity: the call
\* gives what it gives with an explicitly empty collection in its place, it
\* returns whenever the other collections are well formed, and it returns
\* the empty mapping when all six are absent.
C4_AbsentCollectionsAreEmpty ==
    rout # NotCalled =>
        /\ rout = Gather(WithoutAbsent(rin))
        /\ (\A c \in CollectionNames : Absent(rin[c]) \/ rin[c] = PlainDocs[c]) => Done
        /\ (\A c \in CollectionNames : Absent(rin[c])) => rout = Returned(<<>>)
        /\ \A c \in CollectionNames : Absent(rin[c]) =>
               \A fn \in Names : \A p \in Refs(rin, fn) :
                   p[1] # Index(<<"receptionists", "queues", "groups", "music_on_hold_settings", "conference_settings", "call_parking_settings">>, c)

C4_Witness ==
    /\ Done
    /\ rin.receptionists = Null /\ rin.groups = EmptyDict /\ rin.conference_settings = Null
    /\ rin.queues = PlainDocs.queues
    /\ "a.wav" \in DOMAIN rout.usages

\* C5: an absent key, a null or an empty string at any field or container on
\* the way to a filename never makes the resolver fail.
C5_NeverRaises == rout # Raised

-----------------------------------------------------------------------------
(* Properties of a run. *)

Endpoints ==
    {"custom_prompts", "receptionists", "queues", "groups", "playlists", "conference_settings",
     "music_on_hold_settings", "call_parking_settings", "call_flow_apps"}
Requested == {log[i].url : i \in 1..Len(log)}
HasPrimary == output.t = "dir" /\ "custom_prompts.json" \in DOMAIN output.files

\* C6: a run that found output/custom_prompts.json when main() chose its
\* branch issues no request at all; any other run, and every run started
\* with --clear, takes the remote branch, and completes only after
\* requesting every collection.
C6_CacheShortCircuitsRemoteFetch ==
    /\ mode = "cache" => log = <<>> /\ HasPrimary
    /\ mode = "api" /\ pc = "api" /\ ip = 1 /\ log = <<>> => ~HasPrimary
    /\ clear /\ mode # "none" => mode = "api"
    /\ mode = "api" /\ pc = "done" => Endpoints \subseteq Requested

C6_Witness ==
    /\ runs = 2 /\ ~clear
    /\ mode = "cache" /\ pc = "done"
    /\ "call_flow_apps.json" \in DOMAIN output.files

\* C7: once gather_prompt_usages has been called, the run starts no further
\* request and no further cache load.
C7_NothingFetchedAfterResolver ==
    [][(rout # NotCalled /\ runs' = runs) => log' = log /\ locals' = locals]_vars

\* C8: only the last request of a run can have failed, and then the run has
\* failed: nothing is requested after a failed request, the failed request
\* is not sent again, and a run that completes had no failed request.
C8_TransportErrorIsFatal ==
    \A i \in 1..Len(log) : ~log[i].ok => i = Len(log) /\ pc = "failed"

C8_Witness ==
    /\ pc = "failed"
    /\ Len(log) > 9
    /\ log[Len(log)].url = "GetFiles" /\ ~log[Len(log)].ok

\* the document a cache run is to see for a collection: the cached one, or
\* an empty collection when the file is missing
CachedOrEmpty(file, empty) == IF file \in DOMAIN output.files THEN output.files[file] ELSE empty

\* C9: a run from the cache never fails over a missing document, and its
\* UsageMap is the one computed with every missing collection empty.
C9_MissingCacheFileIsEmptyCollection ==
    mode = "cache" =>
        /\ pc # "failed"
        /\ rout # NotCalled =>
               rout = gather_prompt_usages(PromptFilenames(output.files["custom_prompts.json"]),
                          CachedOrEmpty("receptionists.json", ValueEmpty),
                          CachedOrEmpty("queues.json", ValueEmpty),
                          CachedOrEmpty("groups.json", ValueEmpty),
                          CachedOrEmpty("music_on_hold_settings.json", EmptyDict),
                          CachedOrEmpty("conference_settings.json", EmptyDict),
                          CachedOrEmpty("call_parking_settings.json", EmptyDict))

C9_Witness ==
    /\ mode = "cache" /\ pc = "done"
    /\ "queues.json" \notin DOMAIN output.files
    /\ "music_on_hold_settings.json" \notin DOMAIN output.files
    /\ "receptionists.json" \in DOMAIN output.files
    /\ Done /\ "a.wav" \in DOMAIN rout.usages

Fetched(var) == var \in DOMAIN locals
AllFetched ==
    \A var \in {"prompts", "receptionists", "queues", "groups", "playlists", "conference_settings",
                "music_on_hold_settings", "call_parking_settings", "call_flow_apps"} : Fetched(var)

\* C10: on the remote branch output/ is touched only once all nine
\* collections have been fetched, so a run that fails in a fetch of
\* report_from_api leaves no custom_prompts.json behind for a later run to
\* start from.
C10_NoCacheBeforeAllFetched ==
    /\ [](pc = "failed" /\ mode = "api" /\ ~AllFetched => ~HasPrimary)
    /\ [][(output' # output /\ pc # "start") => mode = "api" /\ AllFetched]_vars

C10_Witness ==
    /\ runs = 2
    /\ pc = "failed" /\ mode = "api"
    /\ Fetched("music_on_hold_settings") /\ ~Fetched("call_flow_apps")
    /\ cfa # NoLoop
    /\ ~HasPrimary

=============================================================================
